---- MODULE Spec2Model ----
(***************************************************************************)
(* JiraAgentWorkflowService (services/jira_agent_workflow.py) with the     *)
(* endpoints that touch its session dictionary (api/v1/endpoints/          *)
(* jira_agent.py).  The service runs on one asyncio event loop: a handler  *)
(* runs without interruption from one await to the next, so each action    *)
(* below is the code between two suspension points.  The collaborators     *)
(* (JiraService, CodeGeneratorService, the LLM service) are modelled by    *)
(* what they hand back to the workflow: a value, nothing, or an exception. *)
(***************************************************************************)
EXTENDS Integers, Sequences, FiniteSets, TLC

\* ------------------------------------------------------------------ bounds
MaxSessions == 1      \* sessions created in one run
MaxIter     == 3      \* largest max_iterations a request carries
MaxFeedback == 2      \* approval requests accepted per session
MaxInflight == 2      \* approval handlers suspended at the LLM at once
MaxTime     == 1      \* clock ticks (hours)
MaxTokens   == 2      \* largest tokens_used of one LLM response
MaxWorkflows == 1     \* workflows started in one run of JiraAgentService
MaxTasks    == 3      \* background tasks created in one run of JiraAgentService
MaxStarts   == 2      \* starts that overlap on the shared JiraService

\* --------------------------------------------------------- program values
\* WorkflowState (models/schemas.py)
FETCHING_TICKET        == "fetching_ticket"
ANALYZING_REQUIREMENTS == "analyzing_requirements"
GENERATING_CODE        == "generating_code"
AWAITING_APPROVAL      == "awaiting_approval"
INCORPORATING_FEEDBACK == "incorporating_feedback"
COMPLETED              == "completed"
FAILED                 == "failed"

WorkflowState ==
    { FETCHING_TICKET, ANALYZING_REQUIREMENTS, GENERATING_CODE, AWAITING_APPROVAL,
      INCORPORATING_FEEDBACK, COMPLETED, FAILED }

\* ApprovalStatus (models/schemas.py)
PENDING  == "pending"
APPROVED == "approved"
REJECTED == "rejected"

ApprovalStatus == { PENDING, APPROVED, REJECTED }

\* Python's None, as a record so that it compares with every other record
None == [none |-> TRUE]

\* truncation length of the LLM response quoted in an improved file
ResponseQuoteLen == 200

SessionIds  == 1 .. MaxSessions
WorkflowIds == 1 .. MaxWorkflows
Tasks       == 1 .. MaxTasks

StartIds    == 1 .. MaxStarts

\* JiraCredentials of the requests (models/schemas.py)
JiraCredentials ==
    { [ server_url |-> "https://a.example", username |-> "alice", api_token |-> "ta" ],
      [ server_url |-> "https://b.example", username |-> "bob", api_token |-> "tb" ],
      [ server_url |-> "https://a.example", username |-> "carol", api_token |-> "tc" ] }

\* a start that has not been called
NoStart == [ pc |-> "idle", jira_credentials |-> [none |-> TRUE], fetched_with |-> [none |-> TRUE] ]

\* a task slot that holds no task
NoTask == [ pc |-> "done", workflow_id |-> 0, kind |-> "" ]
Slots       == 1 .. MaxInflight
TicketKeys  == { "ABC-1", "" }

\* a session id no start has ever handed out
UnknownId   == 0

\* the ids a caller can put in a request
RequestIds  == SessionIds \cup { UnknownId }

\* session_config of a request: absent dictionary (None) or a max_iterations
SessionConfigs == { [present |-> FALSE, max_iterations |-> 0] }
                  \cup { [present |-> TRUE, max_iterations |-> m] : m \in (-1) .. MaxIter }

\* JiraAgentRequest: the ticket key with every session_config, and the empty
\* ticket key with the default number of iterations
JiraAgentRequest ==
    { [ticket_key |-> "ABC-1", session_config |-> c] : c \in SessionConfigs }
    \cup { [ticket_key |-> "", session_config |-> [present |-> TRUE, max_iterations |-> 1]] }

\* UserFeedback
UserFeedback == { [feedback_text |-> "please fix", approval_status |-> st] : st \in ApprovalStatus }

VARIABLES
    objects,      \* every CodeGenerationSession object ever built, by session_id
    sessions,     \* the keys of self.sessions; self.sessions[k] is objects[k]
    llm_service,  \* TRUE when self.llm_service is set (initialize succeeded)
    start_pc,     \* per session id: where its start_jira_agent_process is suspended
    approvals,    \* handle_user_approval calls suspended in generate_response
    now,          \* datetime.now(), in hours
    returned,     \* the value the last finished call returned, and the call
    run_clean,    \* history: only one-at-a-time rejections with working collaborators
    regenerations, \* history: calls of _regenerate_code_with_feedback, per session id
    \* CodeGeneratorService._parse_generated_code_new, called on its own
    call_response,   \* the text handed to the extractor
    call_code_style, \* options.code_style of the call
    call_files,      \* the list the call returned
    extractor_pc, \* "idle", "called" or "returned"
    \* JiraAgentService (services/jira_agent_service.py)
    workflows,        \* every CodeGenerationWorkflow object ever built, by workflow_id
    active_workflows, \* the keys of self.active_workflows
    tasks,            \* the background tasks made by asyncio.create_task
    \* the JiraService shared by every start (services/jira_service.py)
    jira_client,      \* self.jira_client: the client, known by what it was built from
    jira_credentials, \* self.credentials
    starts            \* the starts that use it: position, request credentials, client used

extractor_vars == << call_response, call_code_style, call_files, extractor_pc >>

agent_vars == << workflows, active_workflows, tasks >>

client_vars == << jira_client, jira_credentials, starts >>

\* the state of JiraAgentWorkflowService alone
workflow_vars == << objects, sessions, llm_service, start_pc, approvals, run_clean, regenerations >>

vars == << objects, sessions, llm_service, start_pc, approvals, now, returned, run_clean, regenerations, call_response, call_code_style, call_files, extractor_pc, workflows, active_workflows, tasks, jira_client, jira_credentials, starts >>

\* ------------------------------------------------------------ data model
\* GeneratedFile
GeneratedFile(path, content, file_type, language, description, size_lines) ==
    [ path |-> path, content |-> content, file_type |-> file_type,
      language |-> language, description |-> description, size_lines |-> size_lines ]

\* CodeGenerationSession(session_id, ticket_key, current_state, max_iterations),
\* the other fields at their defaults; both timestamps default to datetime.now()
CodeGenerationSession(session_id, ticket_key, current_state, max_iterations, t) ==
    [ session_id            |-> session_id,
      ticket_key            |-> ticket_key,
      current_state         |-> current_state,
      iteration_count       |-> 1,
      max_iterations        |-> max_iterations,
      original_ticket       |-> None,
      ticket_analysis       |-> None,
      generated_code        |-> << >>,
      user_feedback_history |-> << >>,
      created_at            |-> t,
      updated_at            |-> t,
      total_tokens_used     |-> 0,
      error_messages        |-> << >> ]

\* JiraAgentResponse
JiraAgentResponse(session_id, current_state, success, message, ticket_analysis, generated_code, approval_required, iteration_count, tokens_used, warnings) ==
    [ session_id        |-> session_id,
      current_state     |-> current_state,
      success           |-> success,
      message           |-> message,
      ticket_analysis   |-> ticket_analysis,
      generated_code    |-> generated_code,
      approval_required |-> approval_required,
      iteration_count   |-> iteration_count,
      tokens_used       |-> tokens_used,
      warnings          |-> warnings ]

\* JiraTicketData / JiraTicketAnalysis as the workflow sees them: opaque values
JiraTicketData(key)     == [ key |-> key ]
JiraTicketAnalysis(key) == [ ticket_key |-> key, requirements |-> << "req" >> ]

\* what _generate_code_from_analysis can hand back: [] on any failure, else files
GenerationOutcomes ==
    { << >>,
      << GeneratedFile("app.py", "a\nb", "source", "python", "Generated source file", 2),
         GeneratedFile("test_app.py", "t", "test", "python", "Unit tests for app.py", 1) >> }

\* GenerationResult as generate_code_from_requirements returns it: the files and
\* the tokens the generation consumed, or a failure
GenerationResult(success, generated_files, llm_tokens_used) ==
    [ success |-> success, generated_files |-> generated_files,
      llm_tokens_used |-> llm_tokens_used ]

GenerationResults ==
    { GenerationResult(FALSE, << >>, 0) }
    \cup { GenerationResult(TRUE, generated_files, llm_tokens_used) :
              generated_files \in GenerationOutcomes, llm_tokens_used \in 1 .. MaxTokens }

\* _generate_code_from_analysis: the files of a successful result, else []
generate_code_from_analysis(generation_result) ==
    IF generation_result.success THEN generation_result.generated_files ELSE << >>

\* the text of an LLMResponse: prose, or one fenced file (~ is the backquote)
LLMContent(k) == IF k = 1 THEN "use a loop" ELSE "~~~filename: app.py\nfixed\n~~~"

\* what llm_service.generate_response can do: raise, or an LLMResponse
LLMOutcomes ==
    { [raised |-> TRUE, content |-> "", tokens_used |-> 0] }
    \cup { [raised |-> FALSE, content |-> LLMContent(k), tokens_used |-> k] :
             k \in 1 .. MaxTokens }

\* the state of the service as one value: the objects and the dictionary's keys
World(o, k) == [ obj |-> o, keys |-> k ]

\* str(n) of the f-strings: decimal digits, with a sign
Digit(d) ==
    CASE d = 0 -> "0" [] d = 1 -> "1" [] d = 2 -> "2" [] d = 3 -> "3" [] d = 4 -> "4"
      [] d = 5 -> "5" [] d = 6 -> "6" [] d = 7 -> "7" [] d = 8 -> "8" [] d = 9 -> "9"

RECURSIVE NatToStr(_)
NatToStr(n) == IF n < 10 THEN Digit(n) ELSE NatToStr(n \div 10) \o Digit(n % 10)

IntToStr(n) == IF n < 0 THEN "-" \o NatToStr(-n) ELSE NatToStr(n)

\* sub in s, for strings
Contains(s, sub) ==
    \E i \in 1 .. (Len(s) - Len(sub) + 1) : SubSeq(s, i, i + Len(sub) - 1) = sub

\* --------------------------------------------- strings, as Python has them
Char(s, i) == SubSeq(s, i, i)

\* the characters str.strip() removes and \s matches
IsSpace(c) == c \in { " ", "\n", "\t", "\r" }

\* s[i:] starts with lit
StartsAt(s, i, lit) ==
    /\ i >= 1
    /\ i + Len(lit) - 1 <= Len(s)
    /\ SubSeq(s, i, i + Len(lit) - 1) = lit

\* s.endswith(lit)
EndsWith(s, lit) == StartsAt(s, Len(s) - Len(lit) + 1, lit)

\* the first index >= from where lit starts, 0 if there is none
Find(s, lit, from) ==
    LET hits == { i \in from .. Len(s) : StartsAt(s, i, lit) } IN
    IF hits = { } THEN 0 ELSE CHOOSE i \in hits : \A j \in hits : i <= j

\* the last index where lit starts, 0 if there is none
RFind(s, lit) ==
    LET hits == { i \in 1 .. Len(s) : StartsAt(s, i, lit) } IN
    IF hits = { } THEN 0 ELSE CHOOSE i \in hits : \A j \in hits : i >= j

\* s.strip()
strip(s) ==
    LET solid == { i \in 1 .. Len(s) : ~IsSpace(Char(s, i)) } IN
    IF solid = { } THEN ""
    ELSE SubSeq(s, CHOOSE i \in solid : \A j \in solid : i <= j,
                   CHOOSE i \in solid : \A j \in solid : i >= j)

\* len(s.split("\n"))
split_lines(s) == 1 + Cardinality({ i \in 1 .. Len(s) : Char(s, i) = "\n" })

LowerChar(c) ==
    CASE c = "A" -> "a" [] c = "B" -> "b" [] c = "C" -> "c" [] c = "D" -> "d"
      [] c = "E" -> "e" [] c = "F" -> "f" [] c = "G" -> "g" [] c = "H" -> "h"
      [] c = "I" -> "i" [] c = "J" -> "j" [] c = "K" -> "k" [] c = "L" -> "l"
      [] c = "M" -> "m" [] c = "N" -> "n" [] c = "O" -> "o" [] c = "P" -> "p"
      [] c = "Q" -> "q" [] c = "R" -> "r" [] c = "S" -> "s" [] c = "T" -> "t"
      [] c = "U" -> "u" [] c = "V" -> "v" [] c = "W" -> "w" [] c = "X" -> "x"
      [] c = "Y" -> "y" [] c = "Z" -> "z" [] OTHER -> c

\* s.lower()
RECURSIVE lower(_)
lower(s) == IF s = "" THEN "" ELSE LowerChar(Char(s, 1)) \o lower(SubSeq(s, 2, Len(s)))

\* Path(filename).suffix: from the last dot of the last path component, when
\* that dot is neither its first nor its last character
suffix(filename) ==
    LET name == SubSeq(filename, RFind(filename, "/") + 1, Len(filename))
        dot  == RFind(name, ".") IN
    IF dot > 1 /\ dot < Len(name) THEN SubSeq(name, dot, Len(name)) ELSE ""

\* --------------------- CodeGeneratorService._parse_generated_code_new
\* GenerationOptions.code_style
CodeStyles == { "python", "typescript" }

\* _get_file_extension_new
get_file_extension_new(code_style) ==
    LET style == lower(code_style) IN
    CASE style = "javascript" -> ".js"   [] style = "typescript" -> ".ts"
      [] style = "python"     -> ".py"   [] style = "java"       -> ".java"
      [] style = "csharp"     -> ".cs"   [] style = "cpp"        -> ".cpp"
      [] style = "go"         -> ".go"   [] style = "rust"       -> ".rs"
      [] style = "php"        -> ".php"  [] style = "ruby"       -> ".rb"
      [] OTHER -> ".txt"

\* _determine_file_type_new: the first rule that matches, in the code's order
determine_file_type_new(filename, content) ==
    LET filename_lower == lower(filename) IN
    IF \E test_indicator \in { "test", "spec", "__tests__" } :
           Contains(filename_lower, test_indicator)
    THEN "test"
    ELSE IF \E config_indicator \in { "config", "settings", "env" } :
           Contains(filename_lower, config_indicator)
    THEN "config"
    ELSE IF \E ending \in { ".md", ".txt", ".rst" } : EndsWith(filename_lower, ending)
    THEN "documentation"
    ELSE IF Contains(filename_lower, "package.json")
            \/ Contains(filename_lower, "requirements.txt")
    THEN "dependency"
    ELSE "source"

\* _determine_language_new
determine_language_new(filename, default_style) ==
    LET ext == lower(suffix(filename)) IN
    CASE ext = ".js"   -> "javascript" [] ext = ".ts"   -> "typescript"
      [] ext = ".py"   -> "python"     [] ext = ".java" -> "java"
      [] ext = ".cs"   -> "csharp"     [] ext = ".cpp"  -> "cpp"
      [] ext = ".c"    -> "c"          [] ext = ".go"   -> "go"
      [] ext = ".rs"   -> "rust"       [] ext = ".php"  -> "php"
      [] ext = ".rb"   -> "ruby"       [] ext = ".json" -> "json"
      [] ext = ".yaml" -> "yaml"       [] ext = ".yml"  -> "yaml"
      [] ext = ".md"   -> "markdown"   [] OTHER -> default_style

\* the backquote, which a string of this module cannot hold, is written ~
Fence == "~~~"

\* the pattern  Fence(?:filename:\s*([^\n]+)\n)?(.*?)Fence  tried at index p of
\* the response.  The optional group is tried first, \s* from its longest run of
\* white space down to none; [^\n]+ then runs to the end of its line, which must
\* end in a newline; the lazy body stops at the next fence.  Without a closing
\* fence after the group the group is given up and the body starts at the fence.
no_match == [ matched |-> FALSE, filename |-> "", content |-> "", end |-> 0 ]

pattern_match(response, p) ==
    IF ~StartsAt(response, p, Fence) THEN no_match
    ELSE
    LET q == p + 3
        a == q + 9
        \* k characters of white space after "filename:", then the name
        line_end(k) == Find(response, "\n", a + k)
        closing(k) == Find(response, Fence, line_end(k) + 1)
        ways == { k \in 0 .. (Len(response) - a + 1) :
                    /\ StartsAt(response, q, "filename:")
                    /\ \A j \in 0 .. (k - 1) : IsSpace(Char(response, a + j))
                    /\ a + k <= Len(response)
                    /\ Char(response, a + k) # "\n"
                    /\ line_end(k) > 0
                    /\ closing(k) > 0 }
        plain == Find(response, Fence, q)
    IN
    IF ways # { }
    THEN LET k == CHOOSE k \in ways : \A j \in ways : k >= j IN
         [ matched |-> TRUE,
           filename |-> SubSeq(response, a + k, line_end(k) - 1),
           content |-> SubSeq(response, line_end(k) + 1, closing(k) - 1),
           end |-> closing(k) + 3 ]
    ELSE IF plain > 0
    THEN [ matched |-> TRUE, filename |-> "",
           content |-> SubSeq(response, q, plain - 1), end |-> plain + 3 ]
    ELSE no_match

\* re.findall(pattern, response, re.DOTALL): the matches from left to right,
\* each search resuming where the previous match ended
\* only the first match
findall_first(response, p) ==
    LET hits == { i \in p .. Len(response) : pattern_match(response, i).matched } IN
    IF hits = { } THEN << >>
    ELSE << pattern_match(response, CHOOSE i \in hits : \A j \in hits : i <= j) >>

RECURSIVE findall(_, _)
findall(response, p) ==
    IF p > Len(response) THEN << >>
    ELSE LET m == pattern_match(response, p) IN
         IF m.matched THEN << m >> \o findall(response, m.end)
         ELSE findall(response, p + 1)

\* the file of match number i (from 1), or nothing when its body is blank
file_of_match(m, i, code_style) ==
    LET filename == strip(IF m.filename = ""
                          THEN "generated_file_" \o NatToStr(i)
                                   \o get_file_extension_new(code_style)
                          ELSE m.filename)
        content == strip(m.content)
        file_type == determine_file_type_new(filename, content)
    IN
    IF content = "" THEN << >>
    ELSE << GeneratedFile(filename, content, file_type,
                          determine_language_new(filename, code_style),
                          "Generated " \o file_type \o " file",
                          split_lines(content)) >>

RECURSIVE files_of_matches(_, _, _)
files_of_matches(matches, i, code_style) ==
    IF i > Len(matches) THEN << >>
    ELSE file_of_match(matches[i], i, code_style)
             \o files_of_matches(matches, i + 1, code_style)

\* _parse_generated_code_new: the fenced files, or the whole text as one file
parse_generated_code_new(response, code_style) ==
    LET files == files_of_matches(findall(response, 1), 1, code_style) IN
    IF files = << >> /\ strip(response) # ""
    THEN << GeneratedFile("main" \o get_file_extension_new(code_style),
                          strip(response), "source", code_style,
                          "Main generated file", split_lines(response)) >>
    ELSE files

\* ------------------------------------------------------- service helpers
\* _update_session: stamps updated_at and (re)binds the object in self.sessions
update_session(w, sid, t) ==
    World([w.obj EXCEPT ![sid].updated_at = t], w.keys \cup {sid})

\* the effect of _create_error_response on the service: only a session that is
\* in self.sessions is marked FAILED and gets the message appended
error_effect_rebinding(w, sid, error_message) ==
    IF sid \in SessionIds /\ w.obj[sid] # None
    THEN World([w.obj EXCEPT ![sid].current_state = FAILED,
                             ![sid].error_messages = Append(@, error_message)],
               w.keys \cup {sid})
    ELSE w

error_effect_no_message(w, sid, error_message) ==
    IF sid \in w.keys
    THEN World([w.obj EXCEPT ![sid].current_state = FAILED], w.keys)
    ELSE w

error_effect(w, sid, error_message) ==
    IF sid \in w.keys
    THEN World([w.obj EXCEPT ![sid].current_state = FAILED,
                             ![sid].error_messages = Append(@, error_message)], w.keys)
    ELSE w

\* the response _create_error_response returns
create_error_response(session_id, error_message) ==
    JiraAgentResponse(session_id, FAILED, FALSE, error_message, None, << >>,
                      FALSE, 0, 0, << error_message >>)

\* _parse_improved_code_response: every current file, wrapped, with the first
\* 200 characters of the LLM response quoted in a trailing comment
improved_file(original_file, response) ==
    GeneratedFile(
        original_file.path,
        "// Improved based on user feedback\n" \o original_file.content
            \o "\n\n// Additional improvements:\n// "
            \o SubSeq(response, 1, IF Len(response) < ResponseQuoteLen
                                   THEN Len(response) ELSE ResponseQuoteLen)
            \o "...",
        original_file.file_type,
        original_file.language,
        "Improved version: " \o original_file.description,
        original_file.size_lines + 5)

parse_improved_code_response(response, original_files) ==
    [ i \in 1 .. Len(original_files) |-> improved_file(original_files[i], response) ]

set_state(w, sid, state) ==
    World([w.obj EXCEPT ![sid].current_state = state], w.keys)

\* a finished call: the operation and the value it returned
Returned(op, value) == [ op |-> op, value |-> value ]

\* a suspended handle_user_approval: its session and feedback; entry_state,
\* entry_code and observed are history, the current_state and generated_code the
\* call found and the iteration_count it read at its ceiling test
Idle == [ busy |-> FALSE, session_id |-> 0, feedback |-> None,
          entry_state |-> "", entry_code |-> << >>, observed |-> 0 ]

InFlight(sid) == { k \in Slots : approvals[k].busy /\ approvals[k].session_id = sid }

\* ------------------------------------------------------------------ Init
\* JiraAgentWorkflowService() before any request, the clock at 0
NoSessions ==
    /\ objects = [ sid \in SessionIds |-> None ]
    /\ sessions = { }
    /\ start_pc = [ sid \in SessionIds |-> "idle" ]
    /\ approvals = [ k \in Slots |-> Idle ]
    /\ now = 0
    /\ returned = Returned("none", None)
    /\ run_clean = [ sid \in SessionIds |-> FALSE ]
    /\ regenerations = [ sid \in SessionIds |-> 0 ]

\* JiraService() before any start
NoClient ==
    /\ jira_client = None
    /\ jira_credentials = None
    /\ starts = [ s \in StartIds |-> NoStart ]

\* no call of the extractor
NoExtractorCall ==
    /\ call_response = ""
    /\ call_code_style = "python"
    /\ call_files = << >>
    /\ extractor_pc = "idle"

\* JiraAgentService() before any request
NoWorkflows ==
    /\ workflows = [ workflow_id \in WorkflowIds |-> None ]
    /\ active_workflows = { }
    /\ tasks = [ task \in Tasks |-> NoTask ]

Init ==
    /\ NoSessions
    /\ llm_service \in BOOLEAN
    /\ NoExtractorCall
    /\ NoWorkflows
    /\ NoClient

\* ------------------------------------------- start_jira_agent_process
\* the error return of start: _create_error_response, then the handler is over
StartFails(sid, error_message) ==
    LET w == error_effect(World(objects, sessions), sid, error_message) IN
    /\ objects' = w.obj
    /\ sessions' = w.keys
    /\ start_pc' = [start_pc EXCEPT ![sid] = "returned"]
    /\ returned' = Returned("start", create_error_response(sid, error_message))
    /\ run_clean' = [run_clean EXCEPT ![sid] = FALSE]
    /\ UNCHANGED regenerations
    /\ UNCHANGED << llm_service, approvals, now >>

\* lines 53-71: a fresh uuid, the session object, its entry in self.sessions, up
\* to the await of jira_service.initialize.  session_config = None makes .get
\* raise before the session exists: the except branch answers with an error.
StartCall(ticket_key, session_config) ==
    /\ IF ~session_config.present
       THEN /\ returned' = Returned("start",
                   create_error_response(0, "Process failed: 'NoneType' object has no attribute 'get'"))
            /\ UNCHANGED << objects, sessions, llm_service, start_pc, approvals, now, run_clean, regenerations >>
       ELSE \E sid \in SessionIds :
            /\ start_pc[sid] = "idle"
            /\ \A other \in SessionIds : other < sid => start_pc[other] # "idle"
            /\ objects' = [objects EXCEPT ![sid] =
                   CodeGenerationSession(sid, ticket_key, FETCHING_TICKET,
                                         session_config.max_iterations, now)]
            /\ sessions' = sessions \cup {sid}
            /\ start_pc' = [start_pc EXCEPT ![sid] = "initialize"]
            /\ run_clean' = [run_clean EXCEPT ![sid] = TRUE]
            /\ UNCHANGED regenerations
            /\ UNCHANGED << llm_service, approvals, now, returned >>
    /\ UNCHANGED << extractor_vars, agent_vars, client_vars >>

\* lines 71-77: jira_service.initialize has returned
StartInitialized(sid, ok) ==
    /\ start_pc[sid] = "initialize"
    /\ IF ~ok
       THEN StartFails(sid, "Failed to initialize JIRA client")
       ELSE /\ objects' = [objects EXCEPT ![sid].current_state = FETCHING_TICKET]
            /\ start_pc' = [start_pc EXCEPT ![sid] = "fetch_ticket"]
            /\ UNCHANGED << sessions, llm_service, approvals, now, returned, run_clean, regenerations >>
    /\ UNCHANGED << extractor_vars, agent_vars, client_vars >>

\* lines 77-90: fetch_ticket has returned a ticket, returned None, or raised
ticket_fetched(w, sid, ticket_data, t) ==
    update_session(
        World([w.obj EXCEPT ![sid].original_ticket = ticket_data,
                            ![sid].current_state = ANALYZING_REQUIREMENTS], w.keys),
        sid, t)

StartFetched(sid, outcome) ==
    /\ start_pc[sid] = "fetch_ticket"
    /\ CASE outcome = "value" ->
              LET w == ticket_fetched(World(objects, sessions), sid,
                                      JiraTicketData(objects[sid].ticket_key), now) IN
              /\ objects' = w.obj
              /\ sessions' = w.keys
              /\ start_pc' = [start_pc EXCEPT ![sid] = "analyze_ticket"]
              /\ UNCHANGED << llm_service, approvals, now, returned, run_clean, regenerations >>
         [] outcome = "none" ->
              StartFails(sid, "Failed to fetch ticket: " \o objects[sid].ticket_key)
         [] outcome = "raised" ->
              StartFails(sid, "Process failed: JIRA client not initialized")
    /\ UNCHANGED << extractor_vars, agent_vars, client_vars >>

\* lines 90-102: analyze_ticket has returned an analysis, returned None, or raised
ticket_analyzed(w, sid, ticket_analysis, t) ==
    update_session(
        World([w.obj EXCEPT ![sid].ticket_analysis = ticket_analysis,
                            ![sid].current_state = GENERATING_CODE], w.keys),
        sid, t)

StartAnalyzed(sid, outcome) ==
    /\ start_pc[sid] = "analyze_ticket"
    /\ CASE outcome = "value" ->
              LET w == ticket_analyzed(World(objects, sessions), sid,
                                       JiraTicketAnalysis(objects[sid].ticket_key), now) IN
              /\ objects' = w.obj
              /\ sessions' = w.keys
              /\ start_pc' = [start_pc EXCEPT ![sid] = "generate_code"]
              /\ UNCHANGED << llm_service, approvals, now, returned, run_clean, regenerations >>
         [] outcome = "none" ->
              StartFails(sid, "Failed to analyze ticket requirements")
         [] outcome = "raised" ->
              StartFails(sid, "Process failed: LLM service not initialized")
    /\ UNCHANGED << extractor_vars, agent_vars, client_vars >>

\* lines 102-129: _generate_code_from_analysis has returned its list of files
code_generated(w, sid, generated_code, t) ==
    update_session(
        World([w.obj EXCEPT ![sid].generated_code = generated_code,
                            ![sid].current_state = AWAITING_APPROVAL], w.keys),
        sid, t)

StartGenerated(sid, generated_code) ==
    /\ start_pc[sid] = "generate_code"
    /\ IF generated_code = << >>
       THEN StartFails(sid, "Failed to generate code")
       ELSE LET w == code_generated(World(objects, sessions), sid, generated_code, now)
                session == w.obj[sid] IN
            /\ objects' = w.obj
            /\ sessions' = w.keys
            /\ start_pc' = [start_pc EXCEPT ![sid] = "returned"]
            /\ returned' = Returned("start",
                   JiraAgentResponse(sid, AWAITING_APPROVAL, TRUE,
                       "Code generated successfully. Please review and approve or provide feedback.",
                       session.ticket_analysis, generated_code, TRUE,
                       session.iteration_count, session.total_tokens_used, << >>))
            /\ run_clean' = [run_clean EXCEPT ![sid] =
                   @ /\ objects[sid].user_feedback_history = << >>]
            /\ UNCHANGED regenerations
            /\ UNCHANGED << llm_service, approvals, now >>
    /\ UNCHANGED << extractor_vars, agent_vars, client_vars >>

\* ------------------------------------------------- handle_user_approval
\* line 148: the feedback joins the session's history
add_feedback(w, sid, feedback) ==
    World([w.obj EXCEPT ![sid].user_feedback_history = Append(@, feedback)], w.keys)

\* lines 153-154: approval finalizes the session
approve_as_failed(w, sid, t) == update_session(set_state(w, sid, FAILED), sid, t)

approve(w, sid, t) == update_session(set_state(w, sid, COMPLETED), sid, t)

\* line 174: the iteration ceiling
limit_reached_never(session) == FALSE

limit_reached_strict(session) == session.iteration_count > session.max_iterations

limit_reached(session) == session.iteration_count >= session.max_iterations

\* line 180: the message of a rejection at the ceiling
limit_message_without_value(session) == "Maximum iterations reached without approval"

limit_message(session) ==
    "Maximum iterations (" \o IntToStr(session.max_iterations) \o ") reached without approval"

\* lines 175-176: a rejection at the ceiling fails the session
reject_at_limit(w, sid, t) == update_session(set_state(w, sid, FAILED), sid, t)

\* lines 183-185: a rejection below the ceiling opens the next iteration
begin_incorporating(w, sid, t) ==
    update_session(
        World([w.obj EXCEPT ![sid].current_state = INCORPORATING_FEEDBACK,
                            ![sid].iteration_count = @ + 1], w.keys),
        sid, t)

\* line 299: the tokens of the LLM response are added to the session's total
add_tokens_overwriting(w, sid, tokens_used) ==
    World([w.obj EXCEPT ![sid].total_tokens_used = tokens_used], w.keys)

add_tokens(w, sid, tokens_used) ==
    World([w.obj EXCEPT ![sid].total_tokens_used = @ + tokens_used], w.keys)

\* lines 201-203: the improved files replace the session's files
code_regenerated_unsettled(w, sid, improved_code, t) ==
    update_session(
        World([w.obj EXCEPT ![sid].generated_code = improved_code], w.keys), sid, t)

code_regenerated(w, sid, improved_code, t) ==
    update_session(
        World([w.obj EXCEPT ![sid].generated_code = improved_code,
                            ![sid].current_state = AWAITING_APPROVAL], w.keys),
        sid, t)

\* the error return of handle_user_approval
ApprovalFails(w, sid, error_message) ==
    LET w1 == error_effect(w, sid, error_message) IN
    /\ objects' = w1.obj
    /\ sessions' = w1.keys
    /\ returned' = Returned("approval", create_error_response(sid, error_message))

\* lines 139-192: from the call to its return, or to the await of the LLM
HandleUserApprovalCall(sid, feedback) ==
    /\ IF sid \notin sessions
       THEN /\ ApprovalFails(World(objects, sessions), sid, "Session not found")
            /\ UNCHANGED << llm_service, start_pc, approvals, now, run_clean, regenerations >>
       ELSE
       LET w1 == add_feedback(World(objects, sessions), sid, feedback)
           status == feedback.approval_status
           alone == start_pc[sid] = "returned" /\ InFlight(sid) = { }
       IN
       /\ Len(objects[sid].user_feedback_history) < MaxFeedback
       /\ UNCHANGED << llm_service, start_pc, now >>
       /\ CASE status = APPROVED ->
                 LET w2 == approve(w1, sid, now)
                     session == w2.obj[sid] IN
                 /\ objects' = w2.obj
                 /\ sessions' = w2.keys
                 /\ returned' = Returned("approval",
                        JiraAgentResponse(sid, COMPLETED, TRUE,
                            "Code approved and finalized successfully!", None,
                            session.generated_code, FALSE, session.iteration_count,
                            session.total_tokens_used, << >>))
                 /\ run_clean' = [run_clean EXCEPT ![sid] = FALSE]
                 /\ UNCHANGED regenerations
                 /\ UNCHANGED approvals
            [] status = REJECTED /\ limit_reached(w1.obj[sid]) ->
                 /\ ApprovalFails(reject_at_limit(w1, sid, now), sid, limit_message(w1.obj[sid]))
                 /\ run_clean' = [run_clean EXCEPT ![sid] = @ /\ alone]
                 /\ UNCHANGED regenerations
                 /\ UNCHANGED approvals
            [] status = REJECTED /\ ~limit_reached(w1.obj[sid]) ->
                 LET w2 == begin_incorporating(w1, sid, now) IN
                 IF ~llm_service
                 THEN \* _regenerate_code_with_feedback raises and answers []
                      /\ ApprovalFails(w2, sid, "Failed to regenerate code with feedback")
                      /\ run_clean' = [run_clean EXCEPT ![sid] = FALSE]
                      /\ regenerations' = [regenerations EXCEPT ![sid] = @ + 1]
                      /\ UNCHANGED approvals
                 ELSE \E k \in Slots :
                      /\ ~approvals[k].busy
                      /\ \A j \in Slots : j < k => approvals[j].busy
                      /\ approvals' = [approvals EXCEPT ![k] =
                             [ busy |-> TRUE, session_id |-> sid, feedback |-> feedback,
                               entry_state |-> objects[sid].current_state,
                               entry_code |-> objects[sid].generated_code,
                               observed |-> objects[sid].iteration_count ]]
                      /\ objects' = w2.obj
                      /\ sessions' = w2.keys
                      /\ run_clean' = [run_clean EXCEPT ![sid] = @ /\ alone]
                      /\ regenerations' = [regenerations EXCEPT ![sid] = @ + 1]
                      /\ UNCHANGED returned
            [] OTHER ->
                 /\ ApprovalFails(w1, sid, "Invalid approval status")
                 /\ run_clean' = [run_clean EXCEPT ![sid] = FALSE]
                 /\ UNCHANGED regenerations
                 /\ UNCHANGED approvals
    /\ UNCHANGED << extractor_vars, agent_vars, client_vars >>

\* lines 293-306 and 196-217: generate_response has returned or raised; the rest of
\* _regenerate_code_with_feedback and of the handler
HandleUserApprovalResumes(k, outcome) ==
    /\ approvals[k].busy
    /\ LET sid == approvals[k].session_id
           w0 == World(objects, sessions) IN
       /\ approvals' = [approvals EXCEPT ![k] = Idle]
       /\ UNCHANGED << llm_service, start_pc, now >>
       /\ IF outcome.raised
          THEN /\ ApprovalFails(w0, sid, "Failed to regenerate code with feedback")
               /\ run_clean' = [run_clean EXCEPT ![sid] = FALSE]
               /\ UNCHANGED regenerations
          ELSE LET w1 == add_tokens(w0, sid, outcome.tokens_used)
                   improved_code == parse_improved_code_response(
                                        outcome.content, w1.obj[sid].generated_code)
               IN
               IF improved_code = << >>
               THEN /\ ApprovalFails(w1, sid, "Failed to regenerate code with feedback")
                    /\ run_clean' = [run_clean EXCEPT ![sid] = FALSE]
                    /\ UNCHANGED regenerations
               ELSE LET w2 == code_regenerated(w1, sid, improved_code, now)
                        session == w2.obj[sid] IN
                    /\ objects' = w2.obj
                    /\ sessions' = w2.keys
                    /\ returned' = Returned("approval",
                           JiraAgentResponse(sid, AWAITING_APPROVAL, TRUE,
                               "Code regenerated with your feedback (iteration "
                                   \o IntToStr(session.iteration_count)
                                   \o "). Please review again.",
                               None, improved_code, TRUE, session.iteration_count,
                               session.total_tokens_used, << >>))
                    /\ UNCHANGED << run_clean, regenerations >>
    /\ UNCHANGED << extractor_vars, agent_vars, client_vars >>

\* ------------------------------------------------------ other operations
\* get_session_status: the response built from a stored session
session_status_blank(session_id, session) ==
    JiraAgentResponse(session_id, session.current_state, TRUE,
        "Session status: " \o session.current_state, None, << >>,
        session.current_state = AWAITING_APPROVAL, 0, 0, << >>)

session_status(session_id, session) ==
    JiraAgentResponse(session_id, session.current_state, TRUE,
        "Session status: " \o session.current_state,
        session.ticket_analysis, session.generated_code,
        session.current_state = AWAITING_APPROVAL,
        session.iteration_count, session.total_tokens_used, << >>)

GetSessionStatus(sid) ==
    /\ returned' = Returned("status",
           IF sid \notin sessions THEN None ELSE session_status(sid, objects[sid]))
    /\ UNCHANGED << objects, sessions, llm_service, start_pc, approvals, now, run_clean, regenerations >>
    /\ UNCHANGED << extractor_vars, agent_vars, client_vars >>

\* delete_session (endpoint): 404 for an unknown id, else del self.sessions[id]
DeleteSession(sid) ==
    /\ sessions' = sessions \ {sid}
    /\ returned' = Returned("delete",
           [ found |-> sid \in sessions, session_id |-> sid ])
    /\ UNCHANGED << objects, llm_service, start_pc, approvals, now, run_clean, regenerations >>
    /\ UNCHANGED << extractor_vars, agent_vars, client_vars >>

\* cleanup_old_sessions: every session older than max_age_hours goes
sessions_to_remove_later(w, max_age_hours, t) ==
    { sid \in w.keys : t - w.obj[sid].created_at > max_age_hours + 1 }

sessions_to_remove(w, max_age_hours, t) ==
    { sid \in w.keys : t - w.obj[sid].created_at > max_age_hours }

\* the sweep is over; what it logged as cleaned up is kept as its answer
CleanupOldSessions(max_age_hours) ==
    /\ LET removed == sessions_to_remove(World(objects, sessions), max_age_hours, now) IN
       /\ sessions' = sessions \ removed
       /\ returned' = Returned("cleanup", [ max_age_hours |-> max_age_hours, removed |-> removed ])
       /\ UNCHANGED << objects, llm_service, start_pc, approvals, now, run_clean, regenerations >>
    /\ UNCHANGED << extractor_vars, agent_vars, client_vars >>

\* time passes
Tick ==
    /\ now < MaxTime
    /\ now' = now + 1
    /\ UNCHANGED << objects, sessions, llm_service, start_pc, approvals, returned, run_clean, regenerations >>
    /\ UNCHANGED << extractor_vars, agent_vars, client_vars >>

Next ==
    \/ \E request \in JiraAgentRequest :
           StartCall(request.ticket_key, request.session_config)
    \/ \E sid \in SessionIds, ok \in BOOLEAN : StartInitialized(sid, ok)
    \/ \E sid \in SessionIds, outcome \in { "value", "none", "raised" } : StartFetched(sid, outcome)
    \/ \E sid \in SessionIds, outcome \in { "value", "none", "raised" } : StartAnalyzed(sid, outcome)
    \/ \E sid \in SessionIds, generation_result \in GenerationResults :
           StartGenerated(sid, generate_code_from_analysis(generation_result))
    \/ \E sid \in RequestIds, feedback \in UserFeedback : HandleUserApprovalCall(sid, feedback)
    \/ \E k \in Slots, outcome \in LLMOutcomes : HandleUserApprovalResumes(k, outcome)
    \/ \E sid \in RequestIds : GetSessionStatus(sid)
    \/ \E sid \in RequestIds : DeleteSession(sid)
    \/ \E max_age_hours \in 0 .. MaxTime : CleanupOldSessions(max_age_hours)
    \/ Tick

Spec == Init /\ [][Next]_vars

\* ------------------------------------------- the handlers run to their end
\* the requests of the runs in which termination is checked
LiveRequests ==
    { request \in JiraAgentRequest :
        /\ request.ticket_key = "ABC-1"
        /\ request.session_config.present => request.session_config.max_iterations \in { 1, 2 } }

LiveNext ==
    \/ \E request \in LiveRequests :
           StartCall(request.ticket_key, request.session_config)
    \/ \E sid \in SessionIds, ok \in BOOLEAN : StartInitialized(sid, ok)
    \/ \E sid \in SessionIds, outcome \in { "value", "none", "raised" } : StartFetched(sid, outcome)
    \/ \E sid \in SessionIds, outcome \in { "value", "none", "raised" } : StartAnalyzed(sid, outcome)
    \/ \E sid \in SessionIds, generation_result \in GenerationResults :
           StartGenerated(sid, generate_code_from_analysis(generation_result))
    \/ \E sid \in RequestIds, feedback \in UserFeedback : HandleUserApprovalCall(sid, feedback)
    \/ \E k \in Slots, outcome \in LLMOutcomes : HandleUserApprovalResumes(k, outcome)
    \/ \E sid \in RequestIds : GetSessionStatus(sid)
    \/ \E sid \in RequestIds : DeleteSession(sid)
    \/ \E max_age_hours \in 0 .. MaxTime : CleanupOldSessions(max_age_hours)
    \/ Tick

\* every awaited collaborator call returns: a suspended handler is resumed
CollaboratorsReturn ==
    /\ \A sid \in SessionIds :
         /\ WF_vars(\E ok \in BOOLEAN : StartInitialized(sid, ok))
         /\ WF_vars(\E outcome \in { "value", "none", "raised" } : StartFetched(sid, outcome))
         /\ WF_vars(\E outcome \in { "value", "none", "raised" } : StartAnalyzed(sid, outcome))
         /\ WF_vars(\E generation_result \in GenerationResults :
                       StartGenerated(sid, generate_code_from_analysis(generation_result)))
    /\ \A k \in Slots : WF_vars(\E outcome \in LLMOutcomes : HandleUserApprovalResumes(k, outcome))

LiveSpec == Init /\ [][LiveNext]_vars /\ CollaboratorsReturn

\* ------------------------------ _parse_generated_code_new, called on its own
\* paths and bodies of the fenced files of a response
Paths ==
    { "app.py", "package.json", "requirements.txt", "data.json", "deploy.yaml",
      "settings.yml", "test_api.json", "README.md" }

Bodies == { "x = 1", "a\nb" }

\* one fenced file with its path marker
Block(path, body) == Fence \o "filename: " \o path \o "\n" \o body \o "\n" \o Fence

\* texts without a complete fenced file: empty, blank, prose, an opening fence
\* that is never closed, fences around nothing
PlainResponses ==
    { "", " \n", "use a loop", "use a loop\n", "\nline one\nline two",
      Fence \o "filename: app.py\nx = 1", Fence \o Fence,
      Fence \o "filename: app.py\n\n" \o Fence }

\* texts of one or two fenced files, each with the marker of a different path
MarkedPaths ==
    { << p >> : p \in Paths }
    \cup { pq \in Paths \X Paths : pq[1] # pq[2] }

MarkedResponse(paths, body) ==
    IF Len(paths) = 1 THEN Block(paths[1], body)
    ELSE Block(paths[1], body) \o "\n\n" \o Block(paths[2], body)

Responses ==
    PlainResponses
    \cup { MarkedResponse(paths, body) :
             paths \in { ps \in MarkedPaths : Len(ps) = 1 }, body \in Bodies }
    \cup { MarkedResponse(paths, "x = 1") : paths \in { ps \in MarkedPaths : Len(ps) = 2 } }

\* a call of the extractor with a text and a code style
ExtractorInit ==
    /\ NoSessions
    /\ llm_service = FALSE
    /\ NoWorkflows
    /\ NoClient
    /\ call_response \in Responses
    /\ call_code_style \in CodeStyles
    /\ call_files = << >>
    /\ extractor_pc = "called"

\* the call returns its list of files
ParseGeneratedCodeNew ==
    /\ extractor_pc = "called"
    /\ call_files' = parse_generated_code_new(call_response, call_code_style)
    /\ extractor_pc' = "returned"
    /\ UNCHANGED << call_response, call_code_style, workflow_vars, now, returned, agent_vars, client_vars >>

ExtractorNext == ParseGeneratedCodeNew

ExtractorSpec == ExtractorInit /\ [][ExtractorNext]_vars

\* ------------------------------------ overlapping starts on one JiraService
\* JIRA(server=..., basic_auth=(username, api_token)): the client, as a value
JIRA(credentials) ==
    [ server |-> credentials.server_url,
      basic_auth |-> << credentials.username, credentials.api_token >> ]

ClientInit ==
    /\ NoSessions
    /\ llm_service = FALSE
    /\ NoExtractorCall
    /\ NoWorkflows
    /\ NoClient

\* start_jira_agent_process is called and runs into jira_service.initialize:
\* self.credentials, then JIRA(...), then LLMFactory.create_llm(), then the
\* await of the connection test; either constructor can raise, which makes
\* initialize answer False and the start return its error response
InitializeCalled(s, credentials, outcome) ==
    /\ starts[s].pc = "idle"
    /\ \A other \in StartIds : other < s => starts[other].pc # "idle"
    /\ jira_credentials' = credentials
    /\ jira_client' = IF outcome = "jira_raised" THEN jira_client ELSE JIRA(credentials)
    /\ starts' = [starts EXCEPT ![s] =
           [ pc |-> IF outcome = "awaiting" THEN "initialize" ELSE "returned",
             jira_credentials |-> credentials, fetched_with |-> None ]]
    /\ UNCHANGED << workflow_vars, now, returned, extractor_vars, agent_vars >>

\* the connection test has returned or raised; on success the start goes on to
\* fetch_ticket, which reads self.jira_client (lines 58 and 66) and awaits
InitializeReturned(s, ok) ==
    /\ starts[s].pc = "initialize"
    /\ starts' = [starts EXCEPT ![s] =
           IF ok THEN [@ EXCEPT !.pc = "fetch_ticket", !.fetched_with = jira_client]
           ELSE [@ EXCEPT !.pc = "returned"]]
    /\ UNCHANGED << jira_client, jira_credentials, workflow_vars, now, returned, extractor_vars, agent_vars >>

\* the fetch has returned; the start goes on with the steps of the workflow
FetchTicketReturned(s) ==
    /\ starts[s].pc = "fetch_ticket"
    /\ starts' = [starts EXCEPT ![s].pc = "fetched"]
    /\ UNCHANGED << jira_client, jira_credentials, workflow_vars, now, returned, extractor_vars, agent_vars >>

ClientNext ==
    \/ \E s \in StartIds, credentials \in JiraCredentials,
          outcome \in { "awaiting", "jira_raised", "llm_raised" } :
           InitializeCalled(s, credentials, outcome)
    \/ \E s \in StartIds, ok \in BOOLEAN : InitializeReturned(s, ok)
    \/ \E s \in StartIds : FetchTicketReturned(s)

ClientSpec == ClientInit /\ [][ClientNext]_vars

\* ------------------------------------------------------ JiraAgentService
\* WorkflowStatus (services/jira_agent_service.py); APPROVED, REJECTED,
\* COMPLETED and FAILED have the values of their namesakes above
INITIATED        == "initiated"
ANALYZING        == "analyzing"
GENERATING       == "generating"
PENDING_APPROVAL == "pending_approval"

WorkflowStatus ==
    { INITIATED, ANALYZING, GENERATING, PENDING_APPROVAL, APPROVED, REJECTED,
      COMPLETED, FAILED }

\* the ids a caller can put in a request to JiraAgentService
WorkflowRequestIds == WorkflowIds \cup { UnknownId }

\* CodeGenerationWorkflow(workflow_id, ticket_key), the other fields at their
\* defaults; both timestamps default to the time the class was defined
CodeGenerationWorkflow(workflow_id, ticket_key) ==
    [ workflow_id      |-> workflow_id,
      ticket_key       |-> ticket_key,
      ticket_data      |-> None,
      status           |-> INITIATED,
      analysis_results |-> None,
      generated_code   |-> None,
      user_feedback    |-> "",
      iterations       |-> 0,
      max_iterations   |-> 3,
      created_at       |-> 0,
      updated_at       |-> 0 ]

\* workflow.status = ...; workflow.updated_at = datetime.now()
set_status(workflow, status, t) == [workflow EXCEPT !.status = status, !.updated_at = t]

\* the lowest task slot that is free
FreeTask(task) ==
    /\ tasks[task].pc = "done"
    /\ \A other \in Tasks : other < task => tasks[other].pc # "done"

\* asyncio.create_task(coroutine(workflow_id))
create_task(task, kind, workflow_id) ==
    [tasks EXCEPT ![task] = [ pc |-> "created", workflow_id |-> workflow_id, kind |-> kind ]]

\* the except branch of a task: a workflow still in the dictionary fails
task_failed(workflow_id, t) ==
    IF workflow_id \in active_workflows
    THEN [workflows EXCEPT ![workflow_id] = set_status(@, FAILED, t)]
    ELSE workflows

\* a call of JiraAgentService with the clock at 0
AgentInit ==
    /\ NoSessions
    /\ llm_service = FALSE
    /\ NoExtractorCall
    /\ NoWorkflows
    /\ NoClient

\* start_workflow: the workflow, its entry in the dictionary, its task
StartWorkflow(ticket_key) ==
    \E workflow_id \in WorkflowIds, task \in Tasks :
        /\ workflows[workflow_id] = None
        /\ \A other \in WorkflowIds : other < workflow_id => workflows[other] # None
        /\ FreeTask(task)
        /\ workflows' = [workflows EXCEPT ![workflow_id] =
               CodeGenerationWorkflow(workflow_id, ticket_key)]
        /\ active_workflows' = active_workflows \cup { workflow_id }
        /\ tasks' = create_task(task, "execute", workflow_id)
        /\ returned' = Returned("start_workflow", workflow_id)
        /\ UNCHANGED << workflow_vars, now, extractor_vars, client_vars >>

\* a task runs from its creation to its first await.  _execute_workflow: the
\* lookup, then _fetch_ticket_data up to fetch_ticket.  _regenerate_code: the
\* lookup, then _generate_code up to generate_from_requirements.
TaskStarts(task) ==
    LET workflow_id == tasks[task].workflow_id IN
    /\ tasks[task].pc = "created"
    /\ IF workflow_id \notin active_workflows
       THEN \* KeyError; the except branch finds no workflow
            /\ tasks' = [tasks EXCEPT ![task] = NoTask]
            /\ UNCHANGED workflows
       ELSE IF tasks[task].kind = "execute"
       THEN /\ workflows' = [workflows EXCEPT ![workflow_id] = set_status(@, ANALYZING, now)]
            /\ tasks' = [tasks EXCEPT ![task].pc = "fetch_ticket"]
       ELSE IF workflows[workflow_id].analysis_results = None
               \/ workflows[workflow_id].ticket_data = None
       THEN \* _generate_code raises: GENERATING, then the except branch
            /\ workflows' = [workflows EXCEPT ![workflow_id] = set_status(@, FAILED, now)]
            /\ tasks' = [tasks EXCEPT ![task] = NoTask]
       ELSE /\ workflows' = [workflows EXCEPT ![workflow_id] = set_status(@, GENERATING, now)]
            /\ tasks' = [tasks EXCEPT ![task].pc = "generate_from_requirements"]
    /\ UNCHANGED << active_workflows, workflow_vars, now, returned, extractor_vars, client_vars >>

\* the task's exception handler, and the task is over
TaskFails(task) ==
    /\ workflows' = task_failed(tasks[task].workflow_id, now)
    /\ tasks' = [tasks EXCEPT ![task] = NoTask]

\* jira_service.fetch_ticket has returned a ticket, returned None, or raised
TaskFetched(task, outcome) ==
    LET workflow_id == tasks[task].workflow_id IN
    /\ tasks[task].pc = "fetch_ticket"
    /\ IF outcome = "value"
       THEN /\ workflows' = [workflows EXCEPT ![workflow_id].ticket_data =
                   JiraTicketData(workflows[workflow_id].ticket_key)]
            /\ tasks' = [tasks EXCEPT ![task].pc = "get_ticket_comments"]
       ELSE TaskFails(task)
    /\ UNCHANGED << active_workflows, workflow_vars, now, returned, extractor_vars, client_vars >>

\* jira_service.get_ticket_comments has returned or raised
TaskCommentsFetched(task, outcome) ==
    /\ tasks[task].pc = "get_ticket_comments"
    /\ IF outcome = "value"
       THEN /\ tasks' = [tasks EXCEPT ![task].pc = "generate_response"]
            /\ UNCHANGED workflows
       ELSE TaskFails(task)
    /\ UNCHANGED << active_workflows, workflow_vars, now, returned, extractor_vars, client_vars >>

\* the LLM has answered the analysis prompt or raised; _analyze_ticket ends and
\* _generate_code runs up to generate_from_requirements
TaskAnalyzed(task, outcome) ==
    LET workflow_id == tasks[task].workflow_id IN
    /\ tasks[task].pc = "generate_response"
    /\ IF outcome = "value"
       THEN /\ workflows' = [workflows EXCEPT ![workflow_id] =
                   set_status([@ EXCEPT !.analysis_results =
                                   JiraTicketAnalysis(workflows[workflow_id].ticket_key)],
                              GENERATING, now)]
            /\ tasks' = [tasks EXCEPT ![task].pc = "generate_from_requirements"]
       ELSE TaskFails(task)
    /\ UNCHANGED << active_workflows, workflow_vars, now, returned, extractor_vars, client_vars >>

\* lines 225-226 and 98-99 / 280-281: the result is stored, the iteration
\* counted, and the workflow waits for approval
code_stored(workflow, t) ==
    set_status([workflow EXCEPT !.generated_code = [ success |-> TRUE ],
                                !.iterations = @ + 1],
               PENDING_APPROVAL, t)

\* generate_from_requirements has returned or raised; the task ends
TaskGenerated(task, outcome) ==
    LET workflow_id == tasks[task].workflow_id IN
    /\ tasks[task].pc = "generate_from_requirements"
    /\ IF outcome = "value"
       THEN /\ workflows' = [workflows EXCEPT ![workflow_id] = code_stored(@, now)]
            /\ tasks' = [tasks EXCEPT ![task] = NoTask]
       ELSE TaskFails(task)
    /\ UNCHANGED << active_workflows, workflow_vars, now, returned, extractor_vars, client_vars >>

\* get_workflow_status
GetWorkflowStatus(workflow_id) ==
    /\ returned' = Returned("get_workflow_status",
           IF workflow_id \in active_workflows THEN workflows[workflow_id] ELSE None)
    /\ UNCHANGED << agent_vars, workflow_vars, now, extractor_vars, client_vars >>

\* lines 243-244: the workflow is approved
approved_as_completed(workflow, t) == set_status(workflow, COMPLETED, t)

approved(workflow, t) == set_status(workflow, APPROVED, t)

\* approve_workflow
ApproveWorkflow(workflow_id) ==
    /\ IF workflow_id \notin active_workflows
       THEN /\ returned' = Returned("approve_workflow", FALSE)
            /\ UNCHANGED workflows
       ELSE /\ workflows' = [workflows EXCEPT ![workflow_id] = approved(@, now)]
            /\ returned' = Returned("approve_workflow", TRUE)
    /\ UNCHANGED << active_workflows, tasks, workflow_vars, now, extractor_vars, client_vars >>

\* reject_workflow: not found; at the ceiling; or REJECTED with a new task
RejectWorkflow(workflow_id, feedback) ==
    /\ IF workflow_id \notin active_workflows
       THEN /\ returned' = Returned("reject_workflow", FALSE)
            /\ UNCHANGED << workflows, tasks >>
       ELSE IF workflows[workflow_id].iterations >= workflows[workflow_id].max_iterations
       THEN /\ workflows' = [workflows EXCEPT ![workflow_id].status = FAILED]
            /\ returned' = Returned("reject_workflow", FALSE)
            /\ UNCHANGED tasks
       ELSE \E task \in Tasks :
            /\ FreeTask(task)
            /\ workflows' = [workflows EXCEPT ![workflow_id] =
                   set_status([@ EXCEPT !.user_feedback = feedback], REJECTED, now)]
            /\ tasks' = create_task(task, "regenerate", workflow_id)
            /\ returned' = Returned("reject_workflow", TRUE)
    /\ UNCHANGED << active_workflows, workflow_vars, now, extractor_vars, client_vars >>

\* cleanup_completed_workflows: old workflows that are COMPLETED, APPROVED or FAILED go
workflows_to_remove(max_age_hours, t) ==
    { workflow_id \in active_workflows :
        /\ t - workflows[workflow_id].updated_at > max_age_hours
        /\ workflows[workflow_id].status \in { COMPLETED, APPROVED, FAILED } }

CleanupCompletedWorkflows(max_age_hours) ==
    LET removed == workflows_to_remove(max_age_hours, now) IN
    /\ active_workflows' = active_workflows \ removed
    /\ returned' = Returned("cleanup_completed_workflows",
           [ max_age_hours |-> max_age_hours, removed |-> removed ])
    /\ UNCHANGED << workflows, tasks, workflow_vars, now, extractor_vars, client_vars >>

AgentNext ==
    \/ \E ticket_key \in { "ABC-1" } : StartWorkflow(ticket_key)
    \/ \E task \in Tasks : TaskStarts(task)
    \/ \E task \in Tasks, outcome \in { "value", "none", "raised" } : TaskFetched(task, outcome)
    \/ \E task \in Tasks, outcome \in { "value", "raised" } : TaskCommentsFetched(task, outcome)
    \/ \E task \in Tasks, outcome \in { "value", "raised" } : TaskAnalyzed(task, outcome)
    \/ \E task \in Tasks, outcome \in { "value", "raised" } : TaskGenerated(task, outcome)
    \/ \E workflow_id \in WorkflowRequestIds : GetWorkflowStatus(workflow_id)
    \/ \E workflow_id \in WorkflowRequestIds : ApproveWorkflow(workflow_id)
    \/ \E workflow_id \in WorkflowRequestIds : RejectWorkflow(workflow_id, "please fix")
    \/ \E max_age_hours \in 0 .. MaxTime : CleanupCompletedWorkflows(max_age_hours)
    \/ Tick

AgentSpec == AgentInit /\ [][AgentNext]_vars

\* ================================================================ claims
Quiescent(sid) == start_pc[sid] = "returned" /\ InFlight(sid) = { }

Last(seq) == seq[Len(seq)]

\* a start whose collaborator has just failed: initialize answered False, fetch
\* or analysis answered None or raised, or generation answered no files
StartCollaboratorFails(sid) ==
    \/ StartInitialized(sid, FALSE)
    \/ \E outcome \in { "none", "raised" } : StartFetched(sid, outcome)
    \/ \E outcome \in { "none", "raised" } : StartAnalyzed(sid, outcome)
    \/ StartGenerated(sid, << >>)

\* C1: every start with max_iterations >= 1 whose collaborators all succeed
\* returns with the session in AWAITING_APPROVAL, iteration_count = 1, a
\* non-empty generated_code, and a response with success and approval_required.
C1_StartSucceeds ==
    [][ \A sid \in SessionIds :
          ( /\ start_pc[sid] = "generate_code"
            /\ objects[sid].max_iterations >= 1
            /\ \E generated_code \in GenerationOutcomes \ { << >> } :
                   StartGenerated(sid, generated_code) )
          => ( /\ objects'[sid].current_state = AWAITING_APPROVAL
               /\ objects'[sid].iteration_count = 1
               /\ objects'[sid].generated_code # << >>
               /\ returned'.value.success
               /\ returned'.value.approval_required ) ]_vars

\* C2: an APPROVED submission on an AWAITING_APPROVAL session sets COMPLETED,
\* keeps iteration_count and the files, and answers success without
\* approval_required.
C2_ApproveCompletes ==
    [][ \A sid \in SessionIds, feedback \in UserFeedback :
          ( /\ feedback.approval_status = APPROVED
            /\ sid \in sessions
            /\ objects[sid].current_state = AWAITING_APPROVAL
            /\ HandleUserApprovalCall(sid, feedback) )
          => ( /\ objects'[sid].current_state = COMPLETED
               /\ objects'[sid].iteration_count = objects[sid].iteration_count
               /\ objects'[sid].generated_code = objects[sid].generated_code
               /\ returned'.op = "approval"
               /\ returned'.value.success
               /\ ~returned'.value.approval_required ) ]_vars

C2_Witness ==
    \E sid \in sessions :
        /\ Quiescent(sid)
        /\ objects[sid].current_state = COMPLETED
        /\ objects[sid].user_feedback_history
               = << [feedback_text |-> "please fix", approval_status |-> APPROVED] >>
        /\ objects[sid].error_messages = << >>
        /\ objects[sid].generated_code # << >>
        /\ returned.op = "approval"
        /\ returned.value.success
        /\ returned.value.current_state = COMPLETED

\* C3: a REJECTED submission that found the session in AWAITING_APPROVAL below
\* the ceiling, and whose LLM call succeeds, returns with the session in
\* AWAITING_APPROVAL, iteration_count one above what it found, and files.
C3_RejectRegenerates ==
    [][ \A k \in Slots :
          ( /\ approvals[k].busy
            /\ approvals[k].entry_state = AWAITING_APPROVAL
            /\ \E outcome \in LLMOutcomes :
                   ~outcome.raised /\ HandleUserApprovalResumes(k, outcome) )
          => LET sid == approvals[k].session_id IN
             /\ objects'[sid].current_state = AWAITING_APPROVAL
             /\ objects'[sid].iteration_count = approvals[k].observed + 1
             /\ objects'[sid].generated_code # << >> ]_vars

\* C4: a REJECTED submission on an AWAITING_APPROVAL session at the ceiling
\* sets FAILED, appends one message that contains max_iterations, keeps
\* iteration_count, and answers failure.
C4_RejectAtLimitFails ==
    [][ \A sid \in SessionIds, feedback \in UserFeedback :
          ( /\ feedback.approval_status = REJECTED
            /\ sid \in sessions
            /\ objects[sid].current_state = AWAITING_APPROVAL
            /\ objects[sid].iteration_count >= objects[sid].max_iterations
            /\ HandleUserApprovalCall(sid, feedback) )
          => ( /\ objects'[sid].current_state = FAILED
               /\ Len(objects'[sid].error_messages) = Len(objects[sid].error_messages) + 1
               /\ SubSeq(objects'[sid].error_messages, 1, Len(objects[sid].error_messages))
                      = objects[sid].error_messages
               /\ Contains(Last(objects'[sid].error_messages),
                           IntToStr(objects[sid].max_iterations))
               /\ objects'[sid].iteration_count = objects[sid].iteration_count
               /\ returned'.op = "approval"
               /\ ~returned'.value.success ) ]_vars

C4_Witness ==
    \E sid \in sessions :
        /\ Quiescent(sid)
        /\ run_clean[sid]
        /\ objects[sid].max_iterations = 2
        /\ objects[sid].iteration_count = 2
        /\ objects[sid].current_state = FAILED
        /\ objects[sid].error_messages = << "Maximum iterations (2) reached without approval" >>
        /\ returned.op = "approval"
        /\ ~returned.value.success

\* C5: a submission on a stored session that is not in AWAITING_APPROVAL
\* answers an error and changes none of current_state, iteration_count,
\* generated_code, user_feedback_history, total_tokens_used, error_messages.
C5_InvalidStateNoMutation ==
    [][ \A sid \in SessionIds, feedback \in UserFeedback :
          ( /\ sid \in sessions
            /\ objects[sid].current_state # AWAITING_APPROVAL
            /\ HandleUserApprovalCall(sid, feedback) )
          => ( /\ ~returned'.value.success
               /\ objects'[sid] = objects[sid] ) ]_vars

\* C6: once a stored session is COMPLETED or FAILED, its current_state,
\* iteration_count, generated_code and user_feedback_history stay as they are
\* for as long as it is stored.
C6_TerminalAbsorbing ==
    [][ \A sid \in sessions \cap sessions' :
          objects[sid].current_state \in { COMPLETED, FAILED }
          => ( /\ objects'[sid].current_state = objects[sid].current_state
               /\ objects'[sid].iteration_count = objects[sid].iteration_count
               /\ objects'[sid].generated_code = objects[sid].generated_code
               /\ objects'[sid].user_feedback_history
                      = objects[sid].user_feedback_history ) ]_vars

\* the edges of the workflow's state machine
WorkflowEdges ==
    { << FETCHING_TICKET, ANALYZING_REQUIREMENTS >>,
      << ANALYZING_REQUIREMENTS, GENERATING_CODE >>,
      << GENERATING_CODE, AWAITING_APPROVAL >>,
      << AWAITING_APPROVAL, COMPLETED >>,
      << AWAITING_APPROVAL, INCORPORATING_FEEDBACK >>,
      << INCORPORATING_FEEDBACK, AWAITING_APPROVAL >> }
    \cup { << s, FAILED >> : s \in WorkflowState \ { COMPLETED, FAILED } }

\* C7: every change of a session's current_state follows an edge of the
\* workflow's state machine.
C7_OnlyWorkflowEdges ==
    [][ \A sid \in SessionIds :
          ( /\ start_pc[sid] # "idle"
            /\ objects'[sid].current_state # objects[sid].current_state )
          => << objects[sid].current_state, objects'[sid].current_state >>
                 \in WorkflowEdges ]_vars

\* C8: every stored session has 1 <= iteration_count <= max_iterations + 1.
C8_IterationBounds ==
    \A sid \in sessions :
        /\ 1 <= objects[sid].iteration_count
        /\ objects[sid].iteration_count <= objects[sid].max_iterations + 1

\* C9: after a successful start with max_iterations = m >= 1, k rejections
\* submitted one after the other with working collaborators leave the session
\* in AWAITING_APPROVAL with iteration_count = k + 1 while k < m, and in
\* FAILED from the m-th on.
C9_ConsecutiveRejections ==
    \A sid \in SessionIds :
        ( /\ Quiescent(sid)
          /\ run_clean[sid]
          /\ objects[sid].max_iterations >= 1 )
        => LET k == Len(objects[sid].user_feedback_history)
               m == objects[sid].max_iterations IN
           /\ \A i \in 1 .. k :
                  objects[sid].user_feedback_history[i].approval_status = REJECTED
           /\ IF k < m
              THEN /\ objects[sid].current_state = AWAITING_APPROVAL
                   /\ objects[sid].iteration_count = k + 1
              ELSE objects[sid].current_state = FAILED

C9_Witness ==
    \E sid \in sessions :
        /\ Quiescent(sid)
        /\ run_clean[sid]
        /\ objects[sid].max_iterations = 2
        /\ Len(objects[sid].user_feedback_history) = 2
        /\ objects[sid].iteration_count = 2
        /\ objects[sid].current_state = FAILED

\* C10: when a collaborator fails during start, the response is a failure and
\* a session still in the store is FAILED with a non-empty error list and
\* keeps the ticket and the analysis fetched before the failing step.
C10_StartFailureRecorded ==
    [][ \A sid \in SessionIds :
          StartCollaboratorFails(sid)
          => ( /\ returned'.op = "start"
               /\ ~returned'.value.success
               /\ sid \in sessions' =>
                    ( /\ objects'[sid].current_state = FAILED
                      /\ objects'[sid].error_messages # << >>
                      /\ objects'[sid].original_ticket = objects[sid].original_ticket
                      /\ objects'[sid].ticket_analysis = objects[sid].ticket_analysis
                      /\ start_pc[sid] \in { "analyze_ticket", "generate_code" }
                             => objects'[sid].original_ticket
                                    = JiraTicketData(objects[sid].ticket_key)
                      /\ start_pc[sid] = "generate_code"
                             => objects'[sid].ticket_analysis
                                    = JiraTicketAnalysis(objects[sid].ticket_key) ) ) ]_vars

C10_Witness ==
    \E sid \in sessions :
        /\ start_pc[sid] = "returned"
        /\ returned.op = "start"
        /\ ~returned.value.success
        /\ returned.value.message = "Failed to generate code"
        /\ objects[sid].current_state = FAILED
        /\ objects[sid].error_messages = << "Failed to generate code" >>
        /\ objects[sid].original_ticket # None
        /\ objects[sid].ticket_analysis # None

\* the operations on a session that are suspended at a collaborator call
Suspended(sid) ==
    (IF start_pc[sid] \in { "initialize", "fetch_ticket", "analyze_ticket", "generate_code" }
     THEN 1 ELSE 0) + Cardinality(InFlight(sid))

\* C11: a rejection whose text generator fails (never set, or raising) ends
\* with a failure response and, for a session in the store, state FAILED, one
\* more error message, and the generated_code the call found.
C11_LLMFailureRecorded ==
    [][ /\ \A sid \in SessionIds, feedback \in UserFeedback :
             ( /\ ~llm_service
               /\ sid \in sessions
               /\ feedback.approval_status = REJECTED
               /\ ~limit_reached(objects[sid])
               /\ HandleUserApprovalCall(sid, feedback) )
             => ( /\ returned'.op = "approval"
                  /\ ~returned'.value.success
                  /\ objects'[sid].current_state = FAILED
                  /\ Len(objects'[sid].error_messages)
                         = Len(objects[sid].error_messages) + 1
                  /\ objects'[sid].generated_code = objects[sid].generated_code )
        /\ \A k \in Slots :
             ( /\ approvals[k].busy
               /\ \E outcome \in LLMOutcomes :
                      outcome.raised /\ HandleUserApprovalResumes(k, outcome) )
             => LET sid == approvals[k].session_id IN
                /\ returned'.op = "approval"
                /\ ~returned'.value.success
                /\ sid \in sessions' =>
                     ( /\ objects'[sid].current_state = FAILED
                       /\ Len(objects'[sid].error_messages)
                              = Len(objects[sid].error_messages) + 1
                       /\ objects'[sid].generated_code = approvals[k].entry_code ) ]_vars

\* C12: at most one operation on a session is suspended at a collaborator
\* call at any time, so no submission runs while another operation on the
\* same session is in progress.
C12_MutualExclusion ==
    \A sid \in SessionIds : Suspended(sid) <= 1

\* C13: _regenerate_code_with_feedback is called only when iteration_count is
\* below max_iterations at the ceiling test, and the calls made for a
\* session never number more than max_iterations - 1.
C13_RegenerationBelowLimit ==
    [][ \A sid \in SessionIds :
          regenerations'[sid] # regenerations[sid]
          => ( /\ objects[sid].iteration_count < objects[sid].max_iterations
               /\ regenerations'[sid] = regenerations[sid] + 1
               /\ regenerations'[sid] <= objects'[sid].max_iterations - 1 ) ]_vars

C13_Witness ==
    \E sid \in sessions :
        /\ objects[sid].max_iterations = 2
        /\ regenerations[sid] = 1
        /\ InFlight(sid) # { }
        /\ Len(objects[sid].user_feedback_history) = 2
        /\ objects[sid].current_state = FAILED
        /\ returned.op = "approval"
        /\ returned.value.message = "Maximum iterations (2) reached without approval"

\* C14: a start with an empty ticket key or with max_iterations <= 0 answers
\* an error before anything happens: no session enters the store and no
\* collaborator is awaited.
C14_StartValidates ==
    [][ \A request \in JiraAgentRequest :
          ( /\ \/ request.ticket_key = ""
               \/ ( request.session_config.present
                    /\ request.session_config.max_iterations <= 0 )
            /\ StartCall(request.ticket_key, request.session_config) )
          => ( /\ sessions' = sessions
               /\ objects' = objects
               /\ start_pc' = start_pc
               /\ returned'.op = "start"
               /\ ~returned'.value.success ) ]_vars

\* C15: handle_user_approval, get_session_status and delete_session with an id
\* that is not in the store answer not-found and leave the store and every
\* session object as they are.
C15_UnknownIdNoMutation ==
    [][ \A sid \in RequestIds :
          sid \notin sessions
          => ( /\ (\E feedback \in UserFeedback : HandleUserApprovalCall(sid, feedback))
                    => ( /\ returned' = Returned("approval",
                                 create_error_response(sid, "Session not found"))
                         /\ sessions' = sessions
                         /\ objects' = objects )
               /\ GetSessionStatus(sid)
                    => ( /\ returned' = Returned("status", None)
                         /\ sessions' = sessions
                         /\ objects' = objects )
               /\ DeleteSession(sid)
                    => ( /\ returned'.op = "delete"
                         /\ ~returned'.value.found
                         /\ sessions' = sessions
                         /\ objects' = objects ) ) ]_vars

C15_Witness ==
    \E sid \in sessions :
        /\ objects[sid].current_state = AWAITING_APPROVAL
        /\ objects[sid].user_feedback_history = << >>
        /\ returned = Returned("approval",
               create_error_response(UnknownId, "Session not found"))

\* C16: delete_session on a stored id answers found and a get_session_status
\* that follows it on that id answers not-found; delete_session on an id that
\* is not stored answers not-found.
C16_DeleteThenStatus ==
    [][ \A sid \in RequestIds :
          /\ DeleteSession(sid) => returned'.value.found = (sid \in sessions)
          /\ ( /\ returned = Returned("delete", [found |-> TRUE, session_id |-> sid])
               /\ GetSessionStatus(sid) )
             => returned'.value = None ]_vars

\* C17: cleanup_old_sessions removes only sessions that are COMPLETED or
\* FAILED.
C17_SweepSparesNonTerminal ==
    [][ \A max_age_hours \in 0 .. MaxTime :
          CleanupOldSessions(max_age_hours)
          => \A sid \in sessions \ sessions' :
                 objects[sid].current_state \in { COMPLETED, FAILED } ]_vars

\* C18: cleanup_old_sessions(max_age_hours) removes every COMPLETED or FAILED
\* session older than max_age_hours, so with 0 no such session created before
\* the sweep stays; when no session is older than max_age_hours it removes none.
C18_SweepRemovesOldTerminal ==
    [][ \A max_age_hours \in 0 .. MaxTime :
          CleanupOldSessions(max_age_hours)
          => ( /\ \A sid \in sessions :
                     ( /\ objects[sid].current_state \in { COMPLETED, FAILED }
                       /\ now - objects[sid].created_at > max_age_hours )
                     => sid \notin sessions'
               /\ max_age_hours = 0
                     => \A sid \in sessions' :
                            objects[sid].current_state \in { COMPLETED, FAILED }
                            => objects[sid].created_at = now
               /\ (\A sid \in sessions : now - objects[sid].created_at <= max_age_hours)
                     => sessions' = sessions ) ]_vars

C18_Witness ==
    \E sid \in SessionIds :
        /\ sid \notin sessions
        /\ start_pc[sid] = "returned"
        /\ objects[sid].current_state = FAILED
        /\ objects[sid].error_messages = << "Failed to generate code" >>
        /\ objects[sid].created_at < now
        /\ returned = Returned("cleanup", [ max_age_hours |-> 0, removed |-> {sid} ])

\* C19: get_session_status leaves the store and every session object as they
\* are, updated_at included, and answers with the stored session's
\* current_state, generated_code, ticket_analysis and iteration_count.
C19_StatusReadsOnly ==
    [][ \A sid \in RequestIds :
          GetSessionStatus(sid)
          => ( /\ sessions' = sessions
               /\ objects' = objects
               /\ returned'.op = "status"
               /\ sid \in sessions =>
                    ( /\ returned'.value.current_state = objects[sid].current_state
                      /\ returned'.value.generated_code = objects[sid].generated_code
                      /\ returned'.value.ticket_analysis = objects[sid].ticket_analysis
                      /\ returned'.value.iteration_count = objects[sid].iteration_count ) ) ]_vars

C19_Witness ==
    \E sid \in sessions :
        /\ InFlight(sid) # { }
        /\ returned.op = "status"
        /\ returned.value # None
        /\ returned.value.current_state = INCORPORATING_FEEDBACK
        /\ returned.value.iteration_count = 2
        /\ returned.value.generated_code # << >>
        /\ returned.value.ticket_analysis # None

\* C20: after a rejection that succeeds, the session's generated_code is what
\* _parse_generated_code_new extracts from the text the LLM returned.
C20_RegeneratedFromResponse ==
    [][ \A k \in Slots, outcome \in LLMOutcomes :
          ( /\ approvals[k].busy
            /\ ~outcome.raised
            /\ HandleUserApprovalResumes(k, outcome)
            /\ returned'.value.success )
          => \E code_style \in CodeStyles :
                 objects'[approvals[k].session_id].generated_code
                     = parse_generated_code_new(outcome.content, code_style) ]_vars

\* C21: a revision whose LLM call returns adds exactly the returned
\* tokens_used to the session's total_tokens_used, and no step ever lowers a
\* session's total_tokens_used.
C21_TokensAccumulate ==
    [][ /\ \A k \in Slots, outcome \in LLMOutcomes :
             ( /\ approvals[k].busy
               /\ ~outcome.raised
               /\ HandleUserApprovalResumes(k, outcome) )
             => LET sid == approvals[k].session_id IN
                objects'[sid].total_tokens_used
                    = objects[sid].total_tokens_used + outcome.tokens_used
        /\ \A sid \in SessionIds :
             start_pc[sid] # "idle"
             => objects'[sid].total_tokens_used >= objects[sid].total_tokens_used ]_vars

C21_Witness ==
    \E sid \in sessions :
        /\ Quiescent(sid)
        /\ regenerations[sid] = 2
        /\ objects[sid].current_state = AWAITING_APPROVAL
        /\ objects[sid].total_tokens_used = 3
        /\ returned.op = "approval"
        /\ returned.value.tokens_used = 3

\* C22: whenever a stored session's current_state, iteration_count,
\* generated_code or error_messages changes, the step also stamps updated_at
\* with the time of the change.
C22_WritesStampUpdatedAt ==
    [][ \A sid \in sessions \cap sessions' :
          ( \/ objects'[sid].current_state # objects[sid].current_state
            \/ objects'[sid].iteration_count # objects[sid].iteration_count
            \/ objects'[sid].generated_code # objects[sid].generated_code
            \/ objects'[sid].error_messages # objects[sid].error_messages )
          => objects'[sid].updated_at = now ]_vars

\* C26: every file stored on a session has size_lines equal to the number of
\* newline-delimited lines of its content.
C26_SizeLinesIsLineCount ==
    \A sid \in sessions :
        \A i \in 1 .. Len(objects[sid].generated_code) :
            objects[sid].generated_code[i].size_lines
                = split_lines(objects[sid].generated_code[i].content)

\* C29: within one start, fetch_ticket is awaited with the session in
\* FETCHING_TICKET, analyze_ticket only with a fetched ticket and in
\* ANALYZING_REQUIREMENTS, code generation only with an analysis and in
\* GENERATING_CODE, one after the other.
C29_StartStepsInOrder ==
    /\ [][ \A sid \in SessionIds :
             start_pc'[sid] # start_pc[sid]
             => << start_pc[sid], start_pc'[sid] >>
                    \in { << "idle", "initialize" >>, << "initialize", "fetch_ticket" >>,
                          << "fetch_ticket", "analyze_ticket" >>,
                          << "analyze_ticket", "generate_code" >> }
                       \cup { << pc, "returned" >> :
                                pc \in { "initialize", "fetch_ticket",
                                         "analyze_ticket", "generate_code" } } ]_vars
    /\ [](\A sid \in SessionIds :
             /\ start_pc[sid] = "fetch_ticket"
                  => objects[sid].current_state = FETCHING_TICKET
             /\ start_pc[sid] = "analyze_ticket"
                  => ( /\ objects[sid].current_state = ANALYZING_REQUIREMENTS
                       /\ objects[sid].original_ticket # None )
             /\ start_pc[sid] = "generate_code"
                  => ( /\ objects[sid].current_state = GENERATING_CODE
                       /\ objects[sid].ticket_analysis # None ))

\* C23: _parse_generated_code_new returns at least one file for every text.
C23_ExtractorNeverEmpty ==
    extractor_pc = "returned" => call_files # << >>

\* C24: for a text without a fence, not blank, _parse_generated_code_new returns one
\* file of type source, with path main and the extension of the code style,
\* the whole text as content, and size_lines the number of lines of that content.
C24_NoFenceOneSourceFile ==
    ( /\ extractor_pc = "returned"
      /\ Find(call_response, Fence, 1) = 0
      /\ strip(call_response) # "" )
    => ( /\ Len(call_files) = 1
         /\ call_files[1].file_type = "source"
         /\ call_files[1].path = "main" \o get_file_extension_new(call_code_style)
         /\ call_files[1].content = call_response
         /\ call_files[1].size_lines = split_lines(call_files[1].content) )

HasTestIndicator(path) ==
    \E test_indicator \in { "test", "spec", "__tests__" } : Contains(lower(path), test_indicator)

IsManifest(path) ==
    Contains(lower(path), "package.json") \/ Contains(lower(path), "requirements.txt")

IsDocumentation(path) ==
    \E ending \in { ".md", ".txt", ".rst" } : EndsWith(lower(path), ending)

\* C27: a returned file whose path names package.json or requirements.txt,
\* without a test indicator, has file_type dependency.
C27_ManifestIsDependency ==
    extractor_pc = "returned"
    => \A i \in 1 .. Len(call_files) :
           ( IsManifest(call_files[i].path) /\ ~HasTestIndicator(call_files[i].path) )
           => call_files[i].file_type = "dependency"

\* C28: a returned file whose path ends in .json, .yaml or .yml, and that is
\* no test, documentation or manifest, has file_type config.
C28_StructuredDataIsConfig ==
    extractor_pc = "returned"
    => \A i \in 1 .. Len(call_files) :
           ( /\ lower(suffix(call_files[i].path)) \in { ".json", ".yaml", ".yml" }
             /\ ~HasTestIndicator(call_files[i].path)
             /\ ~IsDocumentation(call_files[i].path)
             /\ ~IsManifest(call_files[i].path) )
           => call_files[i].file_type = "config"

\* C30: approve_workflow on a workflow in PENDING_APPROVAL answers True and
\* leaves it APPROVED with the iterations it had; on an id that is not in
\* active_workflows it answers False and changes nothing.
C30_ApproveWorkflow ==
    [][ \A workflow_id \in WorkflowRequestIds :
          ApproveWorkflow(workflow_id)
          => ( /\ ( /\ workflow_id \in active_workflows
                    /\ workflows[workflow_id].status = PENDING_APPROVAL )
                  => ( /\ returned' = Returned("approve_workflow", TRUE)
                       /\ workflows'[workflow_id].status = APPROVED
                       /\ workflows'[workflow_id].iterations
                              = workflows[workflow_id].iterations )
               /\ workflow_id \notin active_workflows
                  => ( /\ returned' = Returned("approve_workflow", FALSE)
                       /\ workflows' = workflows
                       /\ active_workflows' = active_workflows
                       /\ tasks' = tasks ) ) ]_vars

C30_Witness ==
    \E workflow_id \in active_workflows :
        /\ workflows[workflow_id].status = APPROVED
        /\ workflows[workflow_id].iterations = 1
        /\ \A task \in Tasks : tasks[task].pc = "done"
        /\ returned = Returned("approve_workflow", TRUE)

\* C31: a session whose current_state is FAILED has at least one error
\* message, and every step leaves the error_messages a session had as a prefix
\* of the ones it has.
C31_FailedHasMessage ==
    /\ [](\A sid \in SessionIds :
            ( objects[sid] # None /\ objects[sid].current_state = FAILED )
            => Len(objects[sid].error_messages) >= 1)
    /\ [][ \A sid \in SessionIds :
             objects[sid] # None
             => ( /\ Len(objects'[sid].error_messages) >= Len(objects[sid].error_messages)
                  /\ SubSeq(objects'[sid].error_messages, 1, Len(objects[sid].error_messages))
                         = objects[sid].error_messages ) ]_vars

C31_Witness ==
    \E sid \in sessions :
        /\ objects[sid].current_state = FAILED
        /\ Len(objects[sid].error_messages) = 2
        /\ objects[sid].error_messages[1] # objects[sid].error_messages[2]

\* C32: a stored session in AWAITING_APPROVAL or COMPLETED has at least one
\* generated file and a ticket analysis.
C32_ApprovableHasArtifacts ==
    \A sid \in sessions :
        objects[sid].current_state \in { AWAITING_APPROVAL, COMPLETED }
        => ( /\ objects[sid].generated_code # << >>
             /\ objects[sid].ticket_analysis # None )

\* C33: a session id that was handed out and is no longer in self.sessions
\* (deleted by delete_session or swept) is not in self.sessions after any step.
C33_DeletedStaysDeleted ==
    [][ \A sid \in SessionIds :
          ( start_pc[sid] # "idle" /\ sid \notin sessions ) => sid \notin sessions' ]_vars

\* C37: every suspended start and every suspended handle_user_approval returns
\* once its collaborator calls return; when a start or a handle_user_approval
\* returns, the session it acted on, if it is in self.sessions, is in
\* AWAITING_APPROVAL, COMPLETED or FAILED; and a stored session with no handler
\* in progress is in one of these states.
C37_ReturnsLeaveSettledState ==
    /\ \A sid \in SessionIds : (start_pc[sid] # "idle") ~> (start_pc[sid] = "returned")
    /\ \A k \in Slots : approvals[k].busy ~> ~approvals[k].busy
    /\ [][ \A sid \in SessionIds :
             ( /\ returned' # returned
               /\ returned'.op \in { "start", "approval" }
               /\ returned'.value.session_id = sid
               /\ sid \in sessions' )
             => objects'[sid].current_state \in { AWAITING_APPROVAL, COMPLETED, FAILED } ]_vars
    /\ [](\A sid \in sessions :
            Quiescent(sid)
            => objects[sid].current_state \in { AWAITING_APPROVAL, COMPLETED, FAILED })

C37_Witness ==
    \E sid \in sessions :
        /\ Quiescent(sid)
        /\ returned.op = "approval"
        /\ returned.value.session_id = sid
        /\ returned.value.success
        /\ objects[sid].current_state = AWAITING_APPROVAL
        /\ objects[sid].iteration_count = 2

\* C38: the start step that stores the files of a successful generation adds
\* the tokens that generation consumed to the session's total_tokens_used, and
\* a revision whose LLM call returns adds the tokens of that call.
C38_TokensCoverGeneration ==
    [][ /\ \A sid \in SessionIds, generation_result \in GenerationResults :
             ( /\ start_pc[sid] = "generate_code"
               /\ generate_code_from_analysis(generation_result) # << >>
               /\ StartGenerated(sid, generate_code_from_analysis(generation_result)) )
             => objects'[sid].total_tokens_used
                    = objects[sid].total_tokens_used + generation_result.llm_tokens_used
        /\ \A k \in Slots, outcome \in LLMOutcomes :
             ( /\ approvals[k].busy
               /\ ~outcome.raised
               /\ HandleUserApprovalResumes(k, outcome) )
             => objects'[approvals[k].session_id].total_tokens_used
                    = objects[approvals[k].session_id].total_tokens_used
                          + outcome.tokens_used ]_vars

\* C34: every start fetches its ticket with the client built from the
\* credentials of its own request.
C34_FetchUsesOwnClient ==
    \A s \in StartIds :
        starts[s].pc \in { "fetch_ticket", "fetched" }
        => starts[s].fetched_with = JIRA(starts[s].jira_credentials)

\* tasks still running the generation a reject_workflow or start_workflow began
TaskStep(task) ==
    \/ TaskStarts(task)
    \/ \E outcome \in { "value", "none", "raised" } : TaskFetched(task, outcome)
    \/ \E outcome \in { "value", "raised" } : TaskCommentsFetched(task, outcome)
    \/ \E outcome \in { "value", "raised" } : TaskAnalyzed(task, outcome)
    \/ \E outcome \in { "value", "raised" } : TaskGenerated(task, outcome)

\* C35: the iterations of a workflow never exceed its max_iterations.
C35_IterationsWithinCeiling ==
    \A workflow_id \in WorkflowIds :
        workflows[workflow_id] # None
        => workflows[workflow_id].iterations <= workflows[workflow_id].max_iterations

\* C36: no step of a background task changes the status of a workflow that is
\* APPROVED.
C36_ApprovalIsFinal ==
    [][ \A workflow_id \in WorkflowIds, task \in Tasks :
          ( /\ workflows[workflow_id] # None
            /\ workflows[workflow_id].status = APPROVED
            /\ TaskStep(task) )
          => workflows'[workflow_id].status = APPROVED ]_vars

====
